---- MODULE Spec2Model ----
(***************************************************************************)
(* State-machine model of the notion2ragapi indexing core:                 *)
(*   - FAISSVectorDB (services/faiss_db.py): the flat vector index and its *)
(*     parallel documents dict, with the two persisted artifacts;          *)
(*   - IndexingService.index_chunks (services/indexing_service.py);        *)
(*   - EmbeddingService (services/embedding_service.py);                   *)
(*   - TextProcessor.create_chunks (utils/text_processor.py);              *)
(*   - RAGService.query (services/rag_service.py) and the application's    *)
(*     lifespan (main.py);                                                 *)
(*   - the refresh task and its cancellation (api/refresh.py).             *)
(***************************************************************************)
EXTENDS Integers, Sequences, FiniteSets, TLC

VARIABLES vdb, disk, lastCall, emb, chk, appdb, ragdb, task

vars == <<vdb, disk, lastCall, emb, chk, appdb, ragdb, task>>

----------------------------------------------------------------------------
(* Bounds of the model.                                                    *)

\* longest chunk list handed to index_chunks / document list handed to add_documents
MaxChunks == 2
\* the flat index is capped at this many vectors (it only grows in the code)
MaxVectors == 3
\* FAISSVectorDB.dimension (1536 in faiss_db.py:23), scaled down
dimension == 2
\* length of the fallback zero vector (1536 in embedding_service.py:99), scaled down
ZeroVectorLen == 2
\* length of the vectors the embedding backend returns (1536 for the configured model)
ModelDim == 2
\* EmbeddingService.max_batch_size (100 in embedding_service.py:23), scaled down
max_batch_size == 2
\* longest text list handed to generate_embeddings_batch
MaxTexts == 3
\* the backend fails at most this many consecutive attempts of one text
MaxBackendFailures == 4
\* longest raw text handed to create_chunks, in characters
MaxTextLen == 6
\* chunk_size ranges over 1..MaxChunkSize
MaxChunkSize == 3
\* chunk_overlap ranges over 0..MaxChunkOverlap
MaxChunkOverlap == 2

\* longest query handed to generate_query_embedding, in characters
MaxQueryLen == 2
\* top_k ranges over 1..MaxTopK
MaxTopK == 2
\* pages fetch_pages returns to one refresh task
MaxPages == 2
\* refresh tasks requested in one run
MaxTasks == 2

\* tenacity stop_after_attempt(3)
StopAfterAttempt == 3

----------------------------------------------------------------------------
(* Data.                                                                   *)

Texts == {"a", "b"}
Sources == {"p1", "p2"}
ChunkIdx == 0..(MaxChunks - 1)

\* hashlib.md5(text.encode()).hexdigest(), tabulated for the texts of the model
_generate_content_hash(text) ==
    CASE text = "a" -> "0cc175b9c0f1b6a831c399e269772661"
      [] text = "b" -> "92eb5ffee6ae2fec3ad71c777531578f"
      [] text = "c" -> "4a8a08f09d37b73795649038408b5f33"
      [] OTHER      -> "d41d8cd98f00b204e9800998ecf8427e"

\* f"{source_id}_{chunk_index}": injective in (source_id, chunk_index)
_generate_chunk_id(source_id, chunk) == <<source_id, chunk.chunk_index>>

Ids == Sources \X ChunkIdx

\* NotionService.extract_text: chunk i of a page carries chunk_index = i
\* (the other metadata fields are carried through unread and left out)
extract_text(texts) ==
    [i \in 1..Len(texts) |-> [text |-> texts[i], chunk_index |-> i - 1]]

RECURSIVE SeqsUpTo(_, _)
SeqsUpTo(S, n) ==
    IF n = 0 THEN {<<>>}
    ELSE LET shorter == SeqsUpTo(S, n - 1)
         IN  shorter \cup {Append(s, x) : s \in {t \in shorter : Len(t) = n - 1}, x \in S}

Range(s) == {s[i] : i \in 1..Len(s)}

Min(a, b) == IF a < b THEN a ELSE b

RECURSIVE SumSeq(_)
SumSeq(s) == IF s = <<>> THEN 0 ELSE Head(s) + SumSeq(Tail(s))

\* metadata of an entry stored without the indexing pipeline's fields
NoMeta == [chunk_index |-> -1, source_id |-> "", content_hash |-> ""]

----------------------------------------------------------------------------
(* Vectors.                                                                *)

\* the remote model: text in, fixed-length vector out
BackendVector(text) ==
    [i \in 1..ModelDim |->
        CASE text = "a" -> IF i = 1 THEN 1 ELSE 0
          [] text = "b" -> IF i = 2 THEN 1 ELSE 0
          [] OTHER      -> 1]

\* [0.0] * 1536
ZeroVector == [i \in 1..ZeroVectorLen |-> 0]

Dot(v, w) == SumSeq([i \in 1..Len(v) |-> v[i] * w[i]])

\* faiss.normalize_L2: the unit vector v / sqrt(n2), kept exactly as the pair
\* (direction v, squared norm n2); a zero vector is left as it is
normalize_L2(v) == [v |-> v, n2 |-> Dot(v, v)]

\* mutant: the zeros are put in front, the cut keeps the tail
RepairDimension_Front(embedding) ==
    IF Len(embedding) < dimension
    THEN [i \in 1..(dimension - Len(embedding)) |-> 0] \o embedding
    ELSE SubSeq(embedding, Len(embedding) - dimension + 1, Len(embedding))

\* pad with zeros at the tail or truncate to self.dimension
RepairDimension(embedding) ==
    IF Len(embedding) # dimension
    THEN IF Len(embedding) < dimension
         THEN embedding \o [i \in 1..(dimension - Len(embedding)) |-> 0]
         ELSE SubSeq(embedding, 1, dimension)
    ELSE embedding

----------------------------------------------------------------------------
(* FAISSVectorDB: self.index is a flat list of vectors (ntotal = its       *)
(* length), self.documents an insertion-ordered dict id -> {text,metadata}.*)
(* Each index row carries a ghost field owner, the id it was added for.    *)

\* VectorDBService.db is None
None == [live |-> FALSE, index |-> <<>>, documents |-> <<>>]

\* faiss.IndexFlatIP(self.dimension) with self.documents = {}
EmptyDB == [live |-> TRUE, index |-> <<>>, documents |-> <<>>]

\* one persisted artifact: absent, written by _save_index ("ok", with what
\* was written), or present but unreadable ("corrupt")
AbsentFile == [state |-> "absent", data |-> <<>>]
WrittenFile(data) == [state |-> "ok", data |-> data]
CorruptFile == [state |-> "corrupt", data |-> <<>>]

\* os.path.exists(path)
Exists(file) == file.state # "absent"

\* faiss.read_index(path) / json.load(f) return without raising
Loads(file) == file.state = "ok"

\* the persist directory: faiss_index.bin and documents.json
NoFiles == [index |-> AbsentFile, documents |-> AbsentFile]

Keys(documents) == {documents[i].id : i \in 1..Len(documents)}

\* self.documents.get(document_id): None is modelled as the empty sequence
DictGet(documents, id) ==
    SelectSeq(documents, LAMBDA d : d.id = id)

\* self.documents[doc_id] = {...}: an existing key keeps its position
DictSet(documents, id, text, metadata) ==
    LET entry == [id |-> id, text |-> text, metadata |-> metadata]
    IN  IF id \in Keys(documents)
        THEN [i \in 1..Len(documents) |->
                 IF documents[i].id = id THEN entry ELSE documents[i]]
        ELSE Append(documents, entry)

\* self.documents.pop(doc_id, None)
DictPop(documents, id) == SelectSeq(documents, LAMBDA d : d.id # id)

\* FAISSVectorDB._save_index: both artifacts are written
_save_index(db) ==
    [index |-> WrittenFile(db.index), documents |-> WrittenFile(db.documents)]

\* mutant: the except branch does not replace what was loaded before the failure
initialize_NoFallback(files) ==
    IF Exists(files.index) /\ Exists(files.documents)
    THEN [live |-> TRUE, index |-> files.index.data, documents |-> files.documents.data]
    ELSE EmptyDB

\* FAISSVectorDB.initialize: load both artifacts when both exist; when one is
\* missing, or reading either raises, a new empty index and an empty dict
initialize(files) ==
    IF Exists(files.index) /\ Exists(files.documents)
    THEN IF Loads(files.index) /\ Loads(files.documents)
         THEN [live |-> TRUE, index |-> files.index.data,
               documents |-> files.documents.data]
         ELSE EmptyDB
    ELSE EmptyDB

\* the loop of add_documents over the documents, then self.index.add
RECURSIVE AddLoop(_, _)
AddLoop(db, documents) ==
    IF documents = <<>> THEN db
    ELSE LET doc == Head(documents)
             row == [vec |-> normalize_L2(RepairDimension(doc.embedding)),
                     owner |-> doc.id]
         IN  AddLoop([db EXCEPT !.documents = DictSet(@, doc.id, doc.text, doc.metadata),
                                !.index = Append(@, row)],
                     Tail(documents))

\* FAISSVectorDB.add_documents (the in-memory part)
add_documents(db, documents) ==
    IF documents = <<>> THEN db ELSE AddLoop(db, documents)

\* FAISSVectorDB._rebuild_index: a new empty index, nothing is re-added
_rebuild_index(db) == [db EXCEPT !.index = <<>>]

RECURSIVE PopAll(_, _)
PopAll(documents, ids) ==
    IF ids = <<>> THEN documents ELSE PopAll(DictPop(documents, Head(ids)), Tail(ids))

\* FAISSVectorDB.delete_documents
delete_documents(db, document_ids) ==
    IF document_ids = <<>> THEN db
    ELSE _rebuild_index([db EXCEPT !.documents = PopAll(@, document_ids)])

\* FAISSVectorDB.update_document
update_document(db, document_id, document) ==
    LET db1 == IF document_id \in Keys(db.documents)
               THEN [db EXCEPT !.documents =
                        DictSet(@, document_id, document.text, document.metadata)]
               ELSE db
    IN  add_documents(db1, <<[document EXCEPT !.id = document_id]>>)

\* FAISSVectorDB.get_document
get_document(db, document_id) == DictGet(db.documents, document_id)

\* FAISSVectorDB.count_documents
count_documents(db) == Len(db.documents)

\* the inner product of two normalized vectors, kept exactly: num / sqrt(den2)
\* (a zero vector is left unnormalized and scores 0); the components of the
\* model's vectors are not negative
Score(probe, row) ==
    [num |-> Dot(probe.v, row.vec.v),
     den2 |-> IF probe.n2 * row.vec.n2 = 0 THEN 1 ELSE probe.n2 * row.vec.n2]

ScoreLeq(a, b) == a.num * a.num * b.den2 <= b.num * b.num * a.den2

\* mutant: the k rows come back in any order
IndexSearch_AnyOrder(index, probe, k) ==
    {hits \in [1..k -> 1..Len(index)] : \A i, j \in 1..k : i < j => hits[i] # hits[j]}

\* self.index.search(query_array, k) of IndexFlatIP: the k rows of largest
\* inner product, best first; rows of equal score come in an order the
\* library chooses, so every admissible list of row numbers is an outcome
IndexSearch(index, probe, k) ==
    {hits \in [1..k -> 1..Len(index)] :
        /\ \A i, j \in 1..k : i < j =>
               /\ hits[i] # hits[j]
               /\ ScoreLeq(Score(probe, index[hits[j]]), Score(probe, index[hits[i]]))
        /\ \A r \in 1..Len(index) :
               (\A i \in 1..k : hits[i] # r) =>
                   \A i \in 1..k : ScoreLeq(Score(probe, index[r]),
                                             Score(probe, index[hits[i]]))}

\* the query array handed to index.search: repaired like a stored vector
QueryArray(query_embedding) == normalize_L2(RepairDimension(query_embedding))

\* the loop formatting the hits: row idx is reported as the idx-th key of
\* the documents dict (row is a ghost field: the row that scored)
FormatResults(db, probe, hits) ==
    LET valid == SelectSeq(hits, LAMBDA h : h <= Len(db.documents))
    IN  [i \in 1..Len(valid) |->
            [id |-> db.documents[valid[i]].id,
             text |-> db.documents[valid[i]].text,
             metadata |-> db.documents[valid[i]].metadata,
             score |-> Score(probe, db.index[valid[i]]),
             row |-> valid[i]]]

\* FAISSVectorDB.search: the result lists the call can return
search(db, query_embedding, top_k) ==
    IF Len(db.index) = 0 THEN {<<>>}
    ELSE LET probe == QueryArray(query_embedding)
         IN  {FormatResults(db, probe, hits) :
                 hits \in IndexSearch(db.index, probe, Min(top_k, Len(db.index)))}

----------------------------------------------------------------------------
(* EmbeddingService.  The backend is an oracle: failures is the number of  *)
(* consecutive attempts of one text that the remote call fails, batchFails *)
(* says for each batch whether the batched remote call fails.              *)

\* mutant: the stop is tested one attempt late
RECURSIVE RetryLoop_OneMore(_, _, _)
RetryLoop_OneMore(text, failures, attempt) ==
    IF attempt > failures
    THEN [raised |-> FALSE, value |-> BackendVector(text), attempts |-> attempt]
    ELSE IF attempt > StopAfterAttempt
         THEN [raised |-> TRUE, value |-> <<>>, attempts |-> attempt]
         ELSE RetryLoop_OneMore(text, failures, attempt + 1)

\* generate_embedding under @retry(stop=stop_after_attempt(3)): attempt after
\* attempt until one succeeds or the attempt number reaches the stop
RECURSIVE RetryLoop(_, _, _)
RetryLoop(text, failures, attempt) ==
    IF attempt > failures
    THEN [raised |-> FALSE, value |-> BackendVector(text), attempts |-> attempt]
    ELSE IF attempt >= StopAfterAttempt
         THEN [raised |-> TRUE, value |-> <<>>, attempts |-> attempt]
         ELSE RetryLoop(text, failures, attempt + 1)

generate_embedding(text, failures) == RetryLoop(text, failures, 1)

\* number of batches range(0, len(texts), max_batch_size) yields
NumBatches(n) == (n + max_batch_size - 1) \div max_batch_size

\* mutant: the exhausted retries of one text end the whole call
ItemFallback_Propagate(st, r) ==
    IF r.raised THEN [st EXCEPT !.raised = TRUE]
    ELSE [st EXCEPT !.embeddings = Append(@, r.value)]

\* try: embeddings.append(embedding) / except: embeddings.append([0.0] * 1536)
ItemFallback(st, r) ==
    [st EXCEPT !.embeddings = Append(@, IF r.raised THEN ZeroVector ELSE r.value)]

\* the except branch: every text of the failed batch on its own
RECURSIVE FallbackLoop(_, _, _, _)
FallbackLoop(texts, from, to, st) ==
    IF from > to \/ st.raised THEN st
    ELSE LET r == generate_embedding(texts[from], st.itemFailures[from])
             tried == [st EXCEPT !.log = Append(@, [op |-> "single", at |-> from,
                                                    attempts |-> r.attempts])]
         IN  FallbackLoop(texts, from + 1, to, ItemFallback(tried, r))

\* mutant: the vectors of a batch are put in front of the earlier ones
ExtendEmbeddings_Front(embeddings, batch_embeddings) == batch_embeddings \o embeddings

\* embeddings.extend(batch_embeddings)
ExtendEmbeddings(embeddings, batch_embeddings) == embeddings \o batch_embeddings

\* the loop of generate_embeddings_batch over the batch starts i (0-based)
RECURSIVE BatchLoop(_, _, _)
BatchLoop(texts, i, st) ==
    IF i >= Len(texts) \/ st.raised THEN st
    ELSE LET last == Min(i + max_batch_size, Len(texts))
             b == (i \div max_batch_size) + 1
             called == [st EXCEPT !.log = Append(@, [op |-> "batch", at |-> i + 1,
                                                      attempts |-> 1])]
         IN  IF ~st.batchFails[b]
             THEN LET got == [called EXCEPT !.embeddings = ExtendEmbeddings(@,
                                 [k \in 1..(last - i) |-> BackendVector(texts[i + k])])]
                      slept == IF i + max_batch_size < Len(texts)
                               THEN [got EXCEPT !.log = Append(@, [op |-> "sleep",
                                                     at |-> i + 1, attempts |-> 0])]
                               ELSE got
                  IN  BatchLoop(texts, i + max_batch_size, slept)
             ELSE BatchLoop(texts, i + max_batch_size,
                            FallbackLoop(texts, i + 1, last, called))

\* EmbeddingService.generate_embeddings_batch: the vectors and the log of
\* remote calls and pauses
generate_embeddings_batch(texts, batchFails, itemFailures) ==
    BatchLoop(texts, 0, [embeddings |-> <<>>, log |-> <<>>, raised |-> FALSE,
                         batchFails |-> batchFails, itemFailures |-> itemFailures])

\* the backend behaviours one call over n texts can meet
Oracles(n, failureCounts) ==
    [batchFails : [1..NumBatches(n) -> BOOLEAN],
     itemFailures : [1..n -> failureCounts]]

\* the same, every text failing equally often
UniformOracles(n, failureCounts) ==
    [batchFails : [1..NumBatches(n) -> BOOLEAN],
     itemFailures : {[i \in 1..n |-> k] : k \in failureCounts}]

----------------------------------------------------------------------------
(* IndexingService.                                                        *)

\* mutant: no existing chunk is ever taken as changed
HasContentChanged_Never(existing, new_chunk) == FALSE

\* _has_content_changed: existing is the non-empty result of get_document
_has_content_changed(existing, new_chunk) ==
    existing[1].metadata.content_hash # _generate_content_hash(new_chunk.text)

\* mutant: the force_reindex flag is not consulted, every chunk is indexed
Decide_IgnoreFlag(db, source_id, chunk, force_reindex) == "index"

\* the branch of the loop body of index_chunks a chunk takes:
\* "index" (appended to chunks_to_index), "skip" (counted) or "none"
Decide(db, source_id, chunk, force_reindex) ==
    LET existing == get_document(db, _generate_chunk_id(source_id, chunk))
    IN  IF ~force_reindex
        THEN IF existing # <<>>
             THEN IF _has_content_changed(existing, chunk) THEN "index" ELSE "skip"
             ELSE "none"
        ELSE "index"

\* mutant: the document carries no content hash
BuildDocument_NoHash(chunk, source_id, embedding) ==
    [id |-> _generate_chunk_id(source_id, chunk),
     text |-> chunk.text,
     embedding |-> embedding,
     metadata |-> [chunk_index |-> chunk.chunk_index,
                   source_id |-> source_id,
                   content_hash |-> ""]]

\* the document index_chunks builds for chunk i of chunks_to_index
BuildDocument(chunk, source_id, embedding) ==
    [id |-> _generate_chunk_id(source_id, chunk),
     text |-> chunk.text,
     embedding |-> embedding,
     metadata |-> [chunk_index |-> chunk.chunk_index,
                   source_id |-> source_id,
                   content_hash |-> _generate_content_hash(chunk.text)]]

\* chunks_to_index after the loop over chunks, db being the initialized index
ChunksToIndex(db, chunks, source_id, force_reindex) ==
    SelectSeq(chunks, LAMBDA c : Decide(db, source_id, c, force_reindex) = "index")

\* stats["skipped"] after the loop over chunks
Skipped(db, chunks, source_id, force_reindex) ==
    Len(SelectSeq(chunks, LAMBDA c : Decide(db, source_id, c, force_reindex) = "skip"))

\* IndexingService.delete_source_chunks: logs and returns 0, the index is
\* not consulted
delete_source_chunks(db, source_id) == [db |-> db, deleted |-> 0]

\* IndexingService.reindex_source: delete_source_chunks, then the status
reindex_source(db, source_id) ==
    [db |-> delete_source_chunks(db, source_id).db,
     result |-> [source_id |-> source_id, status |-> "ready_for_reindex"]]

\* if not self.vector_service.db: await self.vector_service.initialize()
EnsureInitialized(db, files) == IF ~db.live THEN initialize(files) ELSE db

\* IndexingService.index_chunks: the whole call, from the service's db and
\* the files on disk to the new db, the new files and what it returns
index_chunks(db0, files, chunks, source_id, force_reindex, oracle) ==
    LET db1 == EnsureInitialized(db0, files)
        chunks_to_index == ChunksToIndex(db1, chunks, source_id, force_reindex)
        skipped == Skipped(db1, chunks, source_id, force_reindex)
        texts_to_embed == [i \in 1..Len(chunks_to_index) |-> chunks_to_index[i].text]
        run == generate_embeddings_batch(texts_to_embed, oracle.batchFails,
                                         oracle.itemFailures)
        documents == [i \in 1..Len(chunks_to_index) |->
                         BuildDocument(chunks_to_index[i], source_id, run.embeddings[i])]
        db2 == add_documents(db1, documents)
    IN  IF texts_to_embed # <<>>
        THEN [db |-> db2, files |-> _save_index(db2),
              stats |-> [total_chunks |-> Len(chunks), indexed |-> Len(documents),
                         skipped |-> skipped, failed |-> 0],
              embedded |-> texts_to_embed, embeddings |-> run.embeddings,
              added |-> <<documents>>]
        ELSE [db |-> db1, files |-> files,
              stats |-> [total_chunks |-> Len(chunks), indexed |-> 0,
                         skipped |-> skipped, failed |-> 0],
              embedded |-> <<>>, embeddings |-> <<>>, added |-> <<>>]

----------------------------------------------------------------------------
(* TextProcessor.  A text is a sequence of characters: letters, the        *)
(* sentence end "." and the blank " ".                                     *)

Chars == {"a", ".", " "}

IsSpace(c) == c = " "

\* re.sub(r'\s+', ' ', text): a run of blanks becomes one blank
RECURSIVE CollapseWhitespace(_)
CollapseWhitespace(text) ==
    IF Len(text) <= 1 THEN text
    ELSE IF IsSpace(text[1]) /\ IsSpace(text[2])
         THEN CollapseWhitespace(Tail(text))
         ELSE <<text[1]>> \o CollapseWhitespace(Tail(text))

\* str.strip()
RECURSIVE Strip(_)
Strip(text) ==
    IF text = <<>> THEN text
    ELSE IF IsSpace(text[1]) THEN Strip(Tail(text))
    ELSE IF IsSpace(text[Len(text)]) THEN Strip(SubSeq(text, 1, Len(text) - 1))
    ELSE text

\* TextProcessor.clean_text (the texts of the model hold no control characters)
clean_text(text) ==
    IF text = <<>> THEN <<>> ELSE Strip(CollapseWhitespace(text))

\* str.split(): the maximal runs of non-blank characters
RECURSIVE SplitWords(_, _, _)
SplitWords(text, word, words) ==
    IF text = <<>> THEN (IF word = <<>> THEN words ELSE Append(words, word))
    ELSE IF IsSpace(Head(text))
         THEN SplitWords(Tail(text), <<>>, IF word = <<>> THEN words ELSE Append(words, word))
         ELSE SplitWords(Tail(text), Append(word, Head(text)), words)

Words(text) == SplitWords(text, <<>>, <<>>)

\* re.split(r'(?<=[.!?])\s+', text): cut at each run of blanks that follows a "."
RECURSIVE SplitAfterStop(_, _, _, _)
SplitAfterStop(text, i, piece, pieces) ==
    IF i > Len(text) THEN Append(pieces, piece)
    ELSE IF IsSpace(text[i]) /\ i > 1 /\ text[i - 1] = "."
         THEN LET rest == {j \in i..Len(text) : ~IsSpace(text[j])}
                  next == IF rest = {} THEN Len(text) + 1
                          ELSE CHOOSE j \in rest : \A k \in rest : j <= k
              IN  SplitAfterStop(text, next, <<>>, Append(pieces, piece))
         ELSE SplitAfterStop(text, i + 1, Append(piece, text[i]), pieces)

\* TextProcessor._split_into_sentences
_split_into_sentences(text) ==
    LET pieces == SplitAfterStop(text, 1, <<>>, <<>>)
        stripped == [i \in 1..Len(pieces) |-> Strip(pieces[i])]
    IN  SelectSeq(stripped, LAMBDA p : p # <<>>)

\* len(self.encoding.encode(text)): the tokenizer cuts a text into runs of
\* letters and single punctuation marks, blanks belonging to the next token
RECURSIVE CountTokens(_, _)
CountTokens(text, inLetters) ==
    IF text = <<>> THEN 0
    ELSE IF Head(text) = "." THEN 1 + CountTokens(Tail(text), FALSE)
    ELSE IF IsSpace(Head(text)) THEN CountTokens(Tail(text), FALSE)
    ELSE (IF inLetters THEN 0 ELSE 1) + CountTokens(Tail(text), TRUE)

count_tokens(text) == CountTokens(text, FALSE)

\* " ".join(parts)
RECURSIVE Join(_)
Join(parts) ==
    IF parts = <<>> THEN <<>>
    ELSE IF Len(parts) = 1 THEN parts[1]
    ELSE parts[1] \o <<" ">> \o Join(Tail(parts))

\* mutant: the word that does not fit is dropped instead of opening the next part
SplitLongStep_DropWord(st, word, max_tokens) ==
    LET word_tokens == count_tokens(word)
    IN  IF st.current_tokens + word_tokens > max_tokens
        THEN [chunks |-> IF st.current_chunk # <<>>
                         THEN Append(st.chunks, Join(st.current_chunk)) ELSE st.chunks,
              current_chunk |-> <<>>,
              current_tokens |-> 0]
        ELSE [st EXCEPT !.current_chunk = Append(@, word),
                        !.current_tokens = @ + word_tokens]

\* the body of the loop of _split_long_sentence over the words
SplitLongStep(st, word, max_tokens) ==
    LET word_tokens == count_tokens(word)
    IN  IF st.current_tokens + word_tokens > max_tokens
        THEN [chunks |-> IF st.current_chunk # <<>>
                         THEN Append(st.chunks, Join(st.current_chunk)) ELSE st.chunks,
              current_chunk |-> <<word>>,
              current_tokens |-> word_tokens]
        ELSE [st EXCEPT !.current_chunk = Append(@, word),
                        !.current_tokens = @ + word_tokens]

RECURSIVE SplitLongLoop(_, _, _)
SplitLongLoop(st, words, max_tokens) ==
    IF words = <<>> THEN st
    ELSE SplitLongLoop(SplitLongStep(st, Head(words), max_tokens), Tail(words), max_tokens)

\* TextProcessor._split_long_sentence
_split_long_sentence(sentence, max_tokens) ==
    LET st == SplitLongLoop([chunks |-> <<>>, current_chunk |-> <<>>, current_tokens |-> 0],
                            Words(sentence), max_tokens)
    IN  IF st.current_chunk # <<>>
        THEN Append(st.chunks, Join(st.current_chunk))
        ELSE st.chunks

\* mutant: the overlap loop stops after the last sentence
OverlapLoop_LastOnly(current_chunk, i, overlap_chunk, overlap_tokens, chunk_overlap) ==
    IF i = 0 THEN [chunk |-> overlap_chunk, tokens |-> overlap_tokens]
    ELSE LET s_tokens == count_tokens(current_chunk[i])
         IN  IF overlap_tokens + s_tokens <= chunk_overlap
             THEN [chunk |-> <<current_chunk[i]>> \o overlap_chunk,
                   tokens |-> overlap_tokens + s_tokens]
             ELSE [chunk |-> overlap_chunk, tokens |-> overlap_tokens]

\* the overlap loop: from the last sentence backwards, whole sentences while
\* their tokens stay within chunk_overlap
RECURSIVE OverlapLoop(_, _, _, _, _)
OverlapLoop(current_chunk, i, overlap_chunk, overlap_tokens, chunk_overlap) ==
    IF i = 0 THEN [chunk |-> overlap_chunk, tokens |-> overlap_tokens]
    ELSE LET s_tokens == count_tokens(current_chunk[i])
         IN  IF overlap_tokens + s_tokens <= chunk_overlap
             THEN OverlapLoop(current_chunk, i - 1, <<current_chunk[i]>> \o overlap_chunk,
                              overlap_tokens + s_tokens, chunk_overlap)
             ELSE [chunk |-> overlap_chunk, tokens |-> overlap_tokens]

\* an emitted chunk: its text, and as ghost fields the sentences it was joined
\* from, how many of them are overlap, and whether the long-sentence split
\* produced it
Emitted(sentences, overlap, long) ==
    [text |-> Join(sentences), sentences |-> sentences, overlap |-> overlap, long |-> long]

\* the body of the loop of create_chunks over the sentences
ChunkStep(st, sentence, chunk_size, chunk_overlap) ==
    LET sentence_tokens == count_tokens(sentence)
    IN  IF sentence_tokens > chunk_size
        THEN LET flushed == IF st.current_chunk # <<>>
                            THEN Append(st.chunks, Emitted(st.current_chunk, st.overlap, FALSE))
                            ELSE st.chunks
                 sub_chunks == _split_long_sentence(sentence, chunk_size)
             IN  [chunks |-> flushed \o [i \in 1..Len(sub_chunks) |->
                                            Emitted(<<sub_chunks[i]>>, 0, TRUE)],
                  current_chunk |-> IF st.current_chunk # <<>> THEN <<>> ELSE st.current_chunk,
                  current_tokens |-> IF st.current_chunk # <<>> THEN 0 ELSE st.current_tokens,
                  overlap |-> 0]
        ELSE LET kept ==
                   IF st.current_tokens + sentence_tokens > chunk_size /\ st.current_chunk # <<>>
                   THEN LET ov == IF chunk_overlap > 0
                                  THEN OverlapLoop(st.current_chunk, Len(st.current_chunk),
                                                   <<>>, 0, chunk_overlap)
                                  ELSE [chunk |-> <<>>, tokens |-> 0]
                        IN  [chunks |-> Append(st.chunks,
                                          Emitted(st.current_chunk, st.overlap, FALSE)),
                             current_chunk |-> ov.chunk,
                             current_tokens |-> ov.tokens,
                             overlap |-> Len(ov.chunk)]
                   ELSE st
             IN  [kept EXCEPT !.current_chunk = Append(@, sentence),
                              !.current_tokens = @ + sentence_tokens]

RECURSIVE ChunkLoop(_, _, _, _)
ChunkLoop(st, sentences, chunk_size, chunk_overlap) ==
    IF sentences = <<>> THEN st
    ELSE ChunkLoop(ChunkStep(st, Head(sentences), chunk_size, chunk_overlap),
                   Tail(sentences), chunk_size, chunk_overlap)

\* TextProcessor.create_chunks
create_chunks(text, chunk_size, chunk_overlap) ==
    IF text = <<>> THEN <<>>
    ELSE LET sentences == _split_into_sentences(clean_text(text))
             st == ChunkLoop([chunks |-> <<>>, current_chunk |-> <<>>,
                              current_tokens |-> 0, overlap |-> 0],
                             sentences, chunk_size, chunk_overlap)
         IN  IF st.current_chunk # <<>>
             THEN Append(st.chunks, Emitted(st.current_chunk, st.overlap, FALSE))
             ELSE st.chunks

----------------------------------------------------------------------------
(* The query side: EmbeddingService.generate_query_embedding.  A query is  *)
(* a sequence of characters, like the texts of the TextProcessor.          *)

QueryChars == {"a", "b", " "}

Queries == SeqsUpTo(QueryChars, MaxQueryLen)

\* the text of the model a sequence of characters spells: the one-letter
\* texts are those of Texts, every other text is a third text
TextOf(chars) ==
    IF chars = <<"a">> THEN "a" ELSE IF chars = <<"b">> THEN "b" ELSE "c"

\* mutant: the query is used as given
QueryPreprocess_AsGiven(query) == query

\* query = query.strip()
QueryPreprocess(query) == Strip(query)

\* EmbeddingService.generate_query_embedding: error is the kind of exception
\* that leaves the call ("none" when it returns), sent the texts handed to
\* generate_embedding
generate_query_embedding(query, failures) ==
    LET stripped == QueryPreprocess(query)
    IN  IF stripped = <<>>
        THEN [error |-> "ValueError", value |-> <<>>, attempts |-> 0, sent |-> <<>>]
        ELSE LET r == generate_embedding(TextOf(stripped), failures)
             IN  [error |-> IF r.raised THEN "RetryError" ELSE "none",
                  value |-> r.value, attempts |-> r.attempts, sent |-> <<stripped>>]

----------------------------------------------------------------------------
(* RAGService.query.  The generation backend is an oracle: generationFails *)
(* says whether the chat completion call raises.                           *)

\* the fixed answer returned when no document was found
NoInfoAnswer == "no_relevant_information"

\* RAGService._format_sources (the fields the model's entries carry)
_format_sources(documents) ==
    [i \in 1..Len(documents) |->
        [id |-> documents[i].id, text |-> documents[i].text,
         score |-> documents[i].score,
         chunk_index |-> documents[i].metadata.chunk_index]]

\* what query returns or raises: error is the kind of exception ("none" when
\* it returns); searched and generated are ghost fields telling whether the
\* index was searched and whether the generation backend was called
QueryOutcome(error, answer, sources, relevant_docs, searched, generated) ==
    [error |-> error, answer |-> answer, sources |-> sources,
     relevant_docs |-> relevant_docs, searched |-> searched,
     generated |-> generated]

\* mutant: the generation backend is called whatever the search returned
Answer_AlwaysGenerate(relevant_docs, generationFails) ==
    IF generationFails
    THEN QueryOutcome("APIError", "", <<>>, relevant_docs, TRUE, TRUE)
    ELSE QueryOutcome("none", "generated", _format_sources(relevant_docs),
                      relevant_docs, TRUE, TRUE)

\* the part of query after the search: the fixed answer when nothing was
\* found, else the generated answer with its sources
Answer(relevant_docs, generationFails) ==
    IF relevant_docs = <<>>
    THEN QueryOutcome("none", NoInfoAnswer, <<>>, relevant_docs, TRUE, FALSE)
    ELSE IF generationFails
         THEN QueryOutcome("APIError", "", <<>>, relevant_docs, TRUE, TRUE)
         ELSE QueryOutcome("none", "generated", _format_sources(relevant_docs),
                           relevant_docs, TRUE, TRUE)

\* RAGService.query on the initialized index db: the outcomes the call can have
query(db, text, top_k, failures, generationFails) ==
    LET e == generate_query_embedding(text, failures)
    IN  IF e.error # "none"
        THEN {QueryOutcome(e.error, "", <<>>, <<>>, FALSE, FALSE)}
        ELSE {Answer(relevant_docs, generationFails) :
                 relevant_docs \in search(db, e.value, top_k)}

\* FAISSVectorDB.close: save the state in memory
close(db) == _save_index(db)

----------------------------------------------------------------------------
(* The index and the indexing service as a state machine.                  *)
(*   vdb       the FAISSVectorDB behind the service's VectorDBService      *)
(*             (None until initialize)                                     *)
(*   disk      the two persisted artifacts                                 *)
(*   appdb     the FAISSVectorDB of the VectorDBService made at startup    *)
(*   ragdb     the FAISSVectorDB of the RAGService's VectorDBService       *)
(*   lastCall  what the last call was given and what it returned           *)
(*   task      the latest entry of refresh_tasks and its background task   *)

NoStats == [total_chunks |-> 0, indexed |-> 0, skipped |-> 0, failed |-> 0]

NoCall == [op |-> "none", chunks |-> <<>>, source_id |-> "",
           force_reindex |-> FALSE, stats |-> NoStats, embedded |-> <<>>,
           added |-> <<>>, embeddings |-> <<>>, raised |-> FALSE, args |-> <<>>,
           result |-> <<>>]

\* the record of a call that is not index_chunks
Called(op, raised) ==
    [NoCall EXCEPT !.op = op, !.raised = raised]

\* the record of a call that returned a value
Returned(op, args, result) ==
    [NoCall EXCEPT !.op = op, !.args = args, !.result = result]

\* mutant: the wrappers of VectorDBService do not test self.db
NotInitialized_Unchecked(db) == FALSE

\* if not self.db: raise RuntimeError("Vector database not initialized")
NotInitialized(db) == ~db.live

\* refresh_tasks holds no task; besides the fields of a refresh_tasks entry
\* a task carries the position of its background coroutine (pc), the pages
\* it still has to process, and as ghost fields the force flag it was
\* requested with, the number of its index_chunks calls and that number at
\* the time it was cancelled (-1: not cancelled)
NoTask == [id |-> 0, status |-> "none", pc |-> "idle", force |-> FALSE,
           pages |-> <<>>, calls |-> 0, cancelledAt |-> -1]

EmbIdle == [op |-> "none"]
ChkIdle == [op |-> "none"]

\* embeddings handed to add_documents directly: shorter and longer than
\* the index's dimension (the repair pads the one and cuts the other)
DirectVectors == {<<1>>, [i \in 1..(dimension + 1) |-> IF i <= dimension THEN 1 ELSE 0]}

\* ids of the entries handed to the index directly
DirectIds == {<<"p1", 0>>, <<"p1", 1>>}

DirectDocs == [id : DirectIds, text : {"a"}, embedding : DirectVectors, metadata : {NoMeta}]

ChunkLists == {extract_text(texts) : texts \in SeqsUpTo(Texts, MaxChunks)}
DirectDocLists == SeqsUpTo(DirectDocs, MaxChunks)

\* query embeddings handed to search: those lengths, and the last unit vector
QueryVectors ==
    DirectVectors \cup {[i \in 1..dimension |-> IF i = dimension THEN 1 ELSE 0]}
IdLists == SeqsUpTo(DirectIds, MaxChunks)

Init ==
    /\ vdb = None
    /\ disk = NoFiles
    /\ lastCall = NoCall
    /\ emb = EmbIdle
    /\ chk = ChkIdle
    /\ appdb = None
    /\ ragdb = None
    /\ task = NoTask

\* IndexingService() in refresh_notion_data: a new service whose
\* VectorDBService has db = None
NewIndexingService ==
    /\ lastCall.op = "none"
    /\ vdb' = None
    /\ lastCall' = Called("new_service", FALSE)
    /\ UNCHANGED <<disk, emb, chk, appdb, ragdb, task>>

\* VectorDBService.initialize -> FAISSVectorDB.initialize
Initialize ==
    /\ lastCall.op = "none"
    /\ vdb' = initialize(disk)
    /\ lastCall' = Called("initialize", FALSE)
    /\ UNCHANGED <<disk, emb, chk, appdb, ragdb, task>>

\* IndexingService.index_chunks(chunks, source_id, force_reindex); the backend
\* either answers the batched calls or fails them and every single retry
IndexChunksOf(chunkLists, sources) ==
    /\ lastCall.op = "none"
    /\ \E chunks \in chunkLists, source_id \in sources,
       force_reindex \in BOOLEAN :
      \E oracle \in UniformOracles(Len(ChunksToIndex(EnsureInitialized(vdb, disk), chunks,
                                                     source_id, force_reindex)),
                                   {StopAfterAttempt}) :
        LET r == index_chunks(vdb, disk, chunks, source_id, force_reindex, oracle)
        IN  /\ Len(r.db.index) <= MaxVectors
            /\ vdb' = r.db
            /\ disk' = r.files
            /\ lastCall' = [op |-> "index_chunks",
                            chunks |-> chunks, source_id |-> source_id,
                            force_reindex |-> force_reindex, stats |-> r.stats,
                            embedded |-> r.embedded, added |-> r.added,
                            embeddings |-> r.embeddings,
                            raised |-> FALSE, args |-> <<>>, result |-> <<>>]
            /\ UNCHANGED <<emb, chk, appdb, ragdb, task>>

\* index_chunks on the chunk lists of every page of the model
IndexChunks == IndexChunksOf(ChunkLists, Sources)

\* IndexingService.reindex_source(source_id)
ReindexSource ==
    /\ lastCall.op = "none"
    /\ \E source_id \in Sources :
          LET r == reindex_source(vdb, source_id)
          IN  /\ vdb' = r.db
              /\ lastCall' = Returned("reindex_source", <<source_id>>, r.result)
    /\ UNCHANGED <<disk, emb, chk, appdb, ragdb, task>>

\* VectorDBService.add_documents -> FAISSVectorDB.add_documents
AddDocuments ==
    /\ lastCall.op = "none"
    /\ \E documents \in DirectDocLists :
           IF NotInitialized(vdb)
           THEN /\ lastCall' = Called("add_documents", TRUE)
                /\ UNCHANGED <<vdb, disk, emb, chk, appdb, ragdb, task>>
           ELSE /\ Len(vdb.index) + Len(documents) <= MaxVectors
                /\ vdb' = add_documents(vdb, documents)
                /\ disk' = IF documents = <<>> THEN disk ELSE _save_index(vdb')
                /\ lastCall' = Returned("add_documents", <<documents>>, <<>>)
                /\ UNCHANGED <<emb, chk, appdb, ragdb, task>>

\* VectorDBService.update_document -> FAISSVectorDB.update_document
UpdateDocument ==
    /\ lastCall.op = "none"
    /\ \E document_id \in DirectIds, document \in DirectDocs :
           IF NotInitialized(vdb)
           THEN /\ lastCall' = Called("update_document", TRUE)
                /\ UNCHANGED <<vdb, disk, emb, chk, appdb, ragdb, task>>
           ELSE /\ Len(vdb.index) + 1 <= MaxVectors
                /\ vdb' = update_document(vdb, document_id, document)
                /\ disk' = _save_index(vdb')
                /\ lastCall' = Called("update_document", FALSE)
                /\ UNCHANGED <<emb, chk, appdb, ragdb, task>>

\* VectorDBService.delete_documents -> FAISSVectorDB.delete_documents
DeleteDocuments ==
    /\ lastCall.op = "none"
    /\ \E document_ids \in IdLists :
           IF NotInitialized(vdb)
           THEN /\ lastCall' = Called("delete_documents", TRUE)
                /\ UNCHANGED <<vdb, disk, emb, chk, appdb, ragdb, task>>
           ELSE /\ vdb' = delete_documents(vdb, document_ids)
                /\ lastCall' = Returned("delete_documents", <<document_ids>>, <<>>)
                /\ UNCHANGED <<disk, emb, chk, appdb, ragdb, task>>

\* FAISSVectorDB.clear_collection
ClearCollection ==
    /\ lastCall.op = "none"
    /\ vdb.live
    /\ vdb' = EmptyDB
    /\ disk' = _save_index(vdb')
    /\ lastCall' = Called("clear_collection", FALSE)
    /\ UNCHANGED <<emb, chk, appdb, ragdb, task>>

\* the environment of FAISSVectorDB.initialize: an artifact is removed from
\* the persist directory or left unreadable
DamageFile ==
    /\ lastCall.op = "none"
    /\ \E f \in {"index", "documents"}, file \in {AbsentFile, CorruptFile} :
           /\ disk' = [disk EXCEPT ![f] = file]
           /\ lastCall' = Called("damage_file", FALSE)
           /\ UNCHANGED <<vdb, emb, chk, appdb, ragdb, task>>

\* VectorDBService.search -> FAISSVectorDB.search
Search ==
    /\ lastCall.op = "none"
    /\ \E query_embedding \in QueryVectors, top_k \in 1..MaxTopK :
           /\ IF NotInitialized(vdb)
              THEN lastCall' = Called("search", TRUE)
              ELSE \E documents \in search(vdb, query_embedding, top_k) :
                      lastCall' = Returned("search", <<query_embedding, top_k>>, documents)
           /\ UNCHANGED <<vdb, disk, emb, chk, appdb, ragdb, task>>

\* VectorDBService.get_document -> FAISSVectorDB.get_document
GetDocument ==
    /\ lastCall.op = "none"
    /\ \E document_id \in DirectIds :
           /\ lastCall' = IF NotInitialized(vdb) THEN Called("get_document", TRUE)
                          ELSE Returned("get_document", <<document_id>>,
                                        get_document(vdb, document_id))
           /\ UNCHANGED <<vdb, disk, emb, chk, appdb, ragdb, task>>

\* VectorDBService.count_documents -> FAISSVectorDB.count_documents
CountDocuments ==
    /\ lastCall.op = "none"
    /\ lastCall' = IF NotInitialized(vdb) THEN Called("count_documents", TRUE)
                   ELSE Returned("count_documents", <<>>, <<count_documents(vdb)>>)
    /\ UNCHANGED <<vdb, disk, emb, chk, appdb, ragdb, task>>

\* the caller takes the result and goes on (refresh_notion_data, next page)
Proceed ==
    /\ lastCall.op # "none"
    /\ lastCall' = NoCall
    /\ UNCHANGED <<vdb, disk, emb, chk, appdb, ragdb, task>>

\* the indexing pipeline: services are created and index chunk lists
Next ==
    \/ NewIndexingService
    \/ IndexChunks
    \/ ReindexSource
    \/ Proceed

Spec == Init /\ [][Next]_vars

\* the vector index on its own, driven through VectorDBService
NextIndex ==
    \/ Initialize
    \/ AddDocuments
    \/ UpdateDocument
    \/ DeleteDocuments
    \/ ClearCollection
    \/ Search
    \/ GetDocument
    \/ CountDocuments
    \/ DamageFile
    \/ Proceed

SpecIndex == Init /\ [][NextIndex]_vars

\* lifespan, startup: the application's VectorDBService is made and initialized
Startup ==
    /\ lastCall.op = "none"
    /\ ~appdb.live
    /\ appdb' = initialize(disk)
    /\ vdb' = None
    /\ ragdb' = None
    /\ lastCall' = Called("startup", FALSE)
    /\ UNCHANGED <<disk, emb, chk, task>>

\* refresh_notion_data in the running application: a new IndexingService
RefreshTask ==
    /\ appdb.live
    /\ NewIndexingService

\* the pages the running application indexes: one page of at most one chunk
PageChunkLists == {chunks \in ChunkLists : Len(chunks) <= 1}
Pages == {"p1"}

\* index_chunks on the IndexingService of the running application:
\* refresh_notion_data calls it with force_reindex left at False, the other
\* value is the forced call the function offers
ProcessIndexChunks ==
    /\ appdb.live
    /\ IndexChunksOf(PageChunkLists, Pages)

\* the queries posted to the running application: empty ones are refused by
\* the request model, the others are of one character, blank or not
PostedQueries == {text \in Queries : Len(text) = 1}

\* the embedding backend answers the query at once or fails every attempt
QueryFailures == {0, StopAfterAttempt}

\* query_documents -> RAGService.query, the RAGService being made on the first
\* query and kept in app.state
Query ==
    /\ lastCall.op = "none"
    /\ appdb.live
    /\ \E text \in PostedQueries, top_k \in 1..MaxTopK, failures \in QueryFailures,
          generationFails \in BOOLEAN :
         LET db == EnsureInitialized(ragdb, disk)
         IN  \E r \in query(db, text, top_k, failures, generationFails) :
                /\ ragdb' = db
                /\ lastCall' = [Returned("query",
                                         <<text, top_k, failures, generationFails>>, r)
                                   EXCEPT !.raised = (r.error # "none")]
    /\ UNCHANGED <<vdb, disk, emb, chk, appdb, task>>

\* lifespan, shutdown: close() of the application's VectorDBService; the
\* process ends and its services with it (args is a ghost: the documents
\* file as it was before the flush)
Shutdown ==
    /\ lastCall.op = "none"
    /\ appdb.live
    /\ disk' = close(appdb)
    /\ appdb' = None
    /\ vdb' = None
    /\ ragdb' = None
    /\ lastCall' = Returned("shutdown", <<disk.documents.data>>, <<>>)
    /\ UNCHANGED <<emb, chk, task>>

\* the application process: started, refreshing and answering, shut down
NextProcess ==
    \/ Startup
    \/ RefreshTask
    \/ ProcessIndexChunks
    \/ Query
    \/ Shutdown
    \/ Proceed

SpecProcess == Init /\ [][NextProcess]_vars

----------------------------------------------------------------------------
(* The refresh task: POST /refresh queues refresh_notion_data, which runs  *)
(* on the event loop and gives way at each await; POST /refresh/cancel may *)
(* run at any of them.  The model follows one task at a time: a new one is *)
(* requested when the coroutine of the one before has ended.               *)

\* a page as fetch_pages returns it, with the chunks extract_text makes of it
FetchedPages == [id : Pages, chunks : PageChunkLists]

PageLists == SeqsUpTo(FetchedPages, MaxPages)

\* refresh_index: the entry of refresh_tasks and the queued background task
RefreshIndex ==
    /\ task.pc \in {"idle", "done"}
    /\ task.id < MaxTasks
    /\ \E force \in BOOLEAN :
          task' = [id |-> task.id + 1, status |-> "pending", pc |-> "queued",
                   force |-> force, pages |-> <<>>, calls |-> 0, cancelledAt |-> -1]
    /\ UNCHANGED <<vdb, disk, lastCall, emb, chk, appdb, ragdb>>

\* refresh_notion_data up to its first await: status running, the services
\* are made (a new IndexingService with db = None), fetch_pages is awaited
TaskStart ==
    /\ task.pc = "queued"
    /\ task' = [task EXCEPT !.status = "running", !.pc = "fetch"]
    /\ vdb' = None
    /\ UNCHANGED <<disk, lastCall, emb, chk, appdb, ragdb>>

\* fetch_pages returned: total_pages is set and the loop over the pages begins
TaskFetched ==
    /\ task.pc = "fetch"
    /\ \E pages \in PageLists :
          task' = [task EXCEPT !.pages = pages, !.pc = "pages"]
    /\ UNCHANGED <<vdb, disk, lastCall, emb, chk, appdb, ragdb>>

\* one turn of the loop: extract_text, then index_chunks(text_chunks,
\* page["id"]), force_reindex being left at its default False; the status
\* of the task is not read
TaskPage ==
    /\ task.pc = "pages"
    /\ task.pages # <<>>
    /\ LET page == Head(task.pages)
           db == EnsureInitialized(vdb, disk)
       IN  \E oracle \in UniformOracles(Len(ChunksToIndex(db, page.chunks, page.id, FALSE)),
                                        {StopAfterAttempt}) :
             LET r == index_chunks(vdb, disk, page.chunks, page.id, FALSE, oracle)
             IN  /\ Len(r.db.index) <= MaxVectors
                 /\ vdb' = r.db
                 /\ disk' = r.files
                 /\ lastCall' = [op |-> "index_chunks", chunks |-> page.chunks,
                                 source_id |-> page.id, force_reindex |-> FALSE,
                                 stats |-> r.stats, embedded |-> r.embedded,
                                 added |-> r.added, embeddings |-> r.embeddings,
                                 raised |-> FALSE, args |-> <<task.id, task.force>>,
                                 result |-> <<>>]
                 /\ task' = [task EXCEPT !.pages = Tail(@), !.calls = @ + 1]
    /\ UNCHANGED <<emb, chk, appdb, ragdb>>

\* the loop is over: status completed
TaskCompleted ==
    /\ task.pc = "pages"
    /\ task.pages = <<>>
    /\ task' = [task EXCEPT !.status = "completed", !.pc = "done"]
    /\ UNCHANGED <<vdb, disk, lastCall, emb, chk, appdb, ragdb>>

\* fetch_pages or extract_text raised: the except branch, status failed
TaskFailed ==
    /\ \/ task.pc = "fetch"
       \/ task.pc = "pages" /\ task.pages # <<>>
    /\ task' = [task EXCEPT !.status = "failed", !.pc = "done"]
    /\ UNCHANGED <<vdb, disk, lastCall, emb, chk, appdb, ragdb>>

\* cancel_refresh on the task: refused with 400 unless its status is
\* running, else the status is set to cancelled and nothing is signalled
CancelRefresh ==
    /\ task.status = "running"
    /\ task' = [task EXCEPT !.status = "cancelled", !.cancelledAt = task.calls]
    /\ UNCHANGED <<vdb, disk, lastCall, emb, chk, appdb, ragdb>>

\* index_chunks called on an IndexingService outside a refresh task, with
\* either value of force_reindex
DirectIndexChunks ==
    /\ task.pc \in {"idle", "done"}
    /\ IndexChunksOf(PageChunkLists, Pages)

\* the caller of a direct call goes on
DirectProceed ==
    /\ task.pc \in {"idle", "done"}
    /\ Proceed

NextRefresh ==
    \/ RefreshIndex
    \/ TaskStart
    \/ TaskFetched
    \/ TaskPage
    \/ TaskCompleted
    \/ TaskFailed
    \/ CancelRefresh
    \/ DirectIndexChunks
    \/ DirectProceed

SpecRefresh == Init /\ [][NextRefresh]_vars

----------------------------------------------------------------------------
(* The embedding service on its own.  emb holds the last call: its texts,  *)
(* the backend's behaviour and what the call produced.                     *)

TextLists == SeqsUpTo(Texts, MaxTexts)

\* a text succeeds at once, succeeds on the last attempt, or never
ItemOutcomes == {0, StopAfterAttempt - 1, StopAfterAttempt}

\* EmbeddingService.generate_query_embedding(query)
GenerateQueryEmbedding ==
    /\ emb.op = "none"
    /\ \E text \in Queries, failures \in ItemOutcomes :
        LET r == generate_query_embedding(text, failures)
        IN  /\ emb' = [op |-> "generate_query_embedding", query |-> text,
                       failures |-> failures, error |-> r.error,
                       embedding |-> r.value, attempts |-> r.attempts,
                       sent |-> r.sent]
            /\ UNCHANGED <<vdb, disk, lastCall, chk, appdb, ragdb, task>>

\* EmbeddingService.generate_embedding(text)
GenerateEmbedding ==
    /\ emb.op = "none"
    /\ \E text \in Texts, failures \in 0..MaxBackendFailures :
        LET r == generate_embedding(text, failures)
        IN  /\ emb' = [op |-> "generate_embedding", texts |-> <<text>>,
                       batchFails |-> <<>>, itemFailures |-> <<failures>>,
                       embeddings |-> IF r.raised THEN <<>> ELSE <<r.value>>,
                       log |-> <<[op |-> "single", at |-> 1, attempts |-> r.attempts]>>,
                       raised |-> r.raised]
            /\ UNCHANGED <<vdb, disk, lastCall, chk, appdb, ragdb, task>>

\* EmbeddingService.generate_embeddings_batch(texts)
GenerateEmbeddingsBatch ==
    /\ emb.op = "none"
    /\ \E texts \in TextLists :
      \E oracle \in Oracles(Len(texts), ItemOutcomes) :
        LET r == generate_embeddings_batch(texts, oracle.batchFails, oracle.itemFailures)
        IN  /\ emb' = [op |-> "generate_embeddings_batch", texts |-> texts,
                       batchFails |-> oracle.batchFails,
                       itemFailures |-> oracle.itemFailures,
                       embeddings |-> r.embeddings, log |-> r.log, raised |-> r.raised]
            /\ UNCHANGED <<vdb, disk, lastCall, chk, appdb, ragdb, task>>

\* the caller takes the vectors (or the exception) and goes on
EmbedReturn ==
    /\ emb.op # "none"
    /\ emb' = EmbIdle
    /\ UNCHANGED <<vdb, disk, lastCall, chk, appdb, ragdb, task>>

NextEmbed ==
    \/ GenerateEmbedding
    \/ GenerateEmbeddingsBatch
    \/ GenerateQueryEmbedding
    \/ EmbedReturn

SpecEmbed == Init /\ [][NextEmbed]_vars

----------------------------------------------------------------------------
(* The text chunker on its own.  chk holds the last call and its result.   *)

RawTexts == SeqsUpTo(Chars, MaxTextLen)

\* TextProcessor.create_chunks(text, chunk_size, chunk_overlap)
CreateChunks ==
    /\ chk.op = "none"
    /\ \E text \in RawTexts, chunk_size \in 1..MaxChunkSize,
          chunk_overlap \in 0..MaxChunkOverlap :
        /\ chk' = [op |-> "create_chunks", text |-> text, chunk_size |-> chunk_size,
                   chunk_overlap |-> chunk_overlap,
                   chunks |-> create_chunks(text, chunk_size, chunk_overlap)]
        /\ UNCHANGED <<vdb, disk, lastCall, emb, appdb, ragdb, task>>

\* the caller takes the chunks and goes on
ChunksReturn ==
    /\ chk.op # "none"
    /\ chk' = ChkIdle
    /\ UNCHANGED <<vdb, disk, lastCall, emb, appdb, ragdb, task>>

NextChunk ==
    \/ CreateChunks
    \/ ChunksReturn

SpecChunk == Init /\ [][NextChunk]_vars

----------------------------------------------------------------------------
(* Claims about the indexing pipeline (specification Spec).                *)

\* the index an index_chunks call works on, once it has ensured initialization
Pre == EnsureInitialized(vdb, disk)

\* this step is a call of index_chunks with force_reindex = False
UnforcedCall ==
    /\ lastCall.op = "none"
    /\ lastCall'.op = "index_chunks"
    /\ ~lastCall'.force_reindex

ChunkId(call, i) == _generate_chunk_id(call.source_id, call.chunks[i])

\* the entry stored under chunk i's id was written by index_chunks
\* (its content_hash is the hash of its text)
StoredByIndexing(db, call, i) ==
    LET existing == get_document(db, ChunkId(call, i))
    IN  /\ existing # <<>>
        /\ existing[1].metadata.content_hash = _generate_content_hash(existing[1].text)

\* the entry stored under chunk i's id carries the hash of chunk i's text
StoredUnchanged(db, call, i) ==
    LET existing == get_document(db, ChunkId(call, i))
    IN  /\ existing # <<>>
        /\ existing[1].metadata.content_hash = _generate_content_hash(call.chunks[i].text)

\* C1: in index_chunks with force_reindex = False, every chunk whose id has
\* no entry in the index is embedded and stored: after the call get_document
\* returns an entry for it and it is counted in stats.indexed.
C1_AbsentChunkIsIndexed ==
    [][UnforcedCall =>
         LET call == lastCall'
             absent == {i \in 1..Len(call.chunks) : get_document(Pre, ChunkId(call, i)) = <<>>}
         IN  /\ \A i \in absent : get_document(vdb', ChunkId(call, i)) # <<>>
             /\ call.stats.indexed >= Cardinality(absent)]_vars

\* an unforced call met a chunk with no entry, and neither stored nor counted it
C1_AbsentChunkDropped ==
    /\ lastCall.op = "index_chunks"
    /\ ~lastCall.force_reindex
    /\ Len(lastCall.chunks) = 1
    /\ get_document(vdb, ChunkId(lastCall, 1)) = <<>>
    /\ lastCall.stats.indexed = 0
    /\ lastCall.stats.skipped = 0

\* C2: starting from an empty index, index_chunks(force_reindex = False) on N
\* chunks returns indexed = N, skipped = 0, and the same call once more
\* returns indexed = 0, skipped = N.
C2_IdempotentIndexing ==
    [][(UnforcedCall /\ Pre.documents = <<>> /\ Pre.index = <<>>) =>
         LET call == lastCall'
             N == Len(call.chunks)
         IN  /\ call.stats.indexed = N
             /\ call.stats.skipped = 0
             /\ \A oracle \in UniformOracles(N, {0, StopAfterAttempt}) :
                  LET again == index_chunks(vdb', disk', call.chunks, call.source_id,
                                            FALSE, oracle)
                  IN  again.stats.indexed = 0 /\ again.stats.skipped = N]_vars

\* the first unforced call over two chunks on an empty index indexed nothing
C2_FirstCallIndexesNothing ==
    /\ lastCall.op = "index_chunks"
    /\ ~lastCall.force_reindex
    /\ Len(lastCall.chunks) = 2
    /\ vdb.live
    /\ vdb.documents = <<>>
    /\ vdb.index = <<>>
    /\ lastCall.stats.indexed = 0
    /\ lastCall.stats.skipped = 0

\* C3: when the N chunks of a source are stored by indexing and exactly one
\* chunk's text differs from the stored one, index_chunks(force_reindex =
\* False) returns indexed = 1, skipped = N - 1, and the entry under the
\* changed chunk's id then holds the new text and the hash of the new text.
C3_ChangeDetection ==
    [][UnforcedCall =>
         LET call == lastCall'
             N == Len(call.chunks)
             changed == {i \in 1..N : ~StoredUnchanged(Pre, call, i)}
         IN  ((\A i \in 1..N : StoredByIndexing(Pre, call, i)) /\ Cardinality(changed) = 1)
             => /\ call.stats.indexed = 1
                /\ call.stats.skipped = N - 1
                /\ \A i \in changed :
                     LET now == get_document(vdb', ChunkId(call, i))
                     IN  /\ now # <<>>
                         /\ now[1].text = call.chunks[i].text
                         /\ now[1].metadata.content_hash =
                                _generate_content_hash(call.chunks[i].text)]_vars

\* a call over two stored chunks found one of them changed
C3_Witness ==
    /\ lastCall.op = "index_chunks"
    /\ ~lastCall.force_reindex
    /\ Len(lastCall.chunks) = 2
    /\ lastCall.stats.indexed = 1
    /\ lastCall.stats.skipped = 1

\* C4: when every chunk has a stored entry whose content_hash is the hash of
\* the chunk's text, index_chunks(force_reindex = False) requests no
\* embedding, does not call add_documents and leaves the index, the
\* documents and the persisted files as they were.
C4_UnchangedChunksTouchNothing ==
    [][UnforcedCall =>
         LET call == lastCall'
         IN  (\A i \in 1..Len(call.chunks) : StoredUnchanged(Pre, call, i))
             => /\ call.embedded = <<>>
                /\ call.added = <<>>
                /\ vdb' = Pre
                /\ disk' = disk]_vars

\* a call over two chunks skipped both
C4_Witness ==
    /\ lastCall.op = "index_chunks"
    /\ ~lastCall.force_reindex
    /\ Len(lastCall.chunks) = 2
    /\ lastCall.stats.skipped = 2
    /\ lastCall.embedded = <<>>

----------------------------------------------------------------------------
(* Claims about the vector index (specification SpecIndex).                *)

\* the ids the rows of the flat index were added for
IndexedIds(db) == {db.index[i].owner : i \in 1..Len(db.index)}

\* C5: after any sequence of initialize, add_documents, update_document,
\* delete_documents and clear_collection, the ids having a vector in the
\* index are the ids of the documents dict, and there are as many vectors
\* as documents, also when an id already present is added again.
C5_LockStep ==
    vdb.live =>
        /\ IndexedIds(vdb) = Keys(vdb.documents)
        /\ Len(vdb.index) = Len(vdb.documents)

\* an id was added twice: two rows in the flat index, one entry in the dict
C5_IdAddedTwice ==
    /\ vdb.live
    /\ Len(vdb.index) = 2
    /\ Len(vdb.documents) = 1
    /\ IndexedIds(vdb) = Keys(vdb.documents)

\* a delete left documents behind with no row in the flat index
C5_DeleteEmptiesIndex ==
    /\ vdb.live
    /\ lastCall.op = "delete_documents"
    /\ vdb.index = <<>>
    /\ vdb.documents # <<>>

\* the data operations of VectorDBService
DataOps == {"add_documents", "search", "delete_documents", "update_document",
            "get_document", "count_documents"}

C12_InitializeFallback ==
    [][lastCall'.op = "initialize" =>
          /\ vdb'.live
          /\ ~lastCall'.raised
          /\ IF disk.index.state = "ok" /\ disk.documents.state = "ok"
             THEN /\ vdb'.index = disk.index.data
                  /\ vdb'.documents = disk.documents.data
             ELSE /\ vdb'.index = <<>>
                  /\ vdb'.documents = <<>>]_vars

\* the index file held vectors and loaded, the documents file did not:
\* initialize ended with an empty index
C12_Witness ==
    /\ lastCall.op = "initialize"
    /\ disk.index.state = "ok"
    /\ disk.index.data # <<>>
    /\ disk.documents.state = "corrupt"
    /\ vdb = EmptyDB

\* the ids of the entries a search result list reports
ResultIds(documents) == {documents[i].id : i \in 1..Len(documents)}

\* every id of the documents dict has exactly one row, at the dict position
InStep(db) ==
    /\ Len(db.index) = Len(db.documents)
    /\ \A i \in 1..Len(db.index) : db.index[i].owner = db.documents[i].id

\* C13: delete_documents(ids) removes exactly the named entries: afterwards
\* get_document and search give no entry with an id of ids, and every other
\* entry is still stored with its vector and is still returned by search.
C13_DeleteRemovesExactly ==
    [][(vdb.live /\ InStep(vdb) /\ lastCall'.op = "delete_documents") =>
          LET ids == Range(lastCall'.args[1])
              kept == Keys(vdb.documents) \ ids
              all == Len(vdb.documents)
          IN  /\ \A id \in ids :
                    /\ get_document(vdb', id) = <<>>
                    /\ \A q \in QueryVectors : \A res \in search(vdb', q, all) :
                           id \notin ResultIds(res)
              /\ \A id \in kept :
                    /\ get_document(vdb', id) = get_document(vdb, id)
                    /\ \A i \in 1..Len(vdb.index) :
                           vdb.index[i].owner = id => vdb.index[i] \in Range(vdb'.index)
                    /\ \A q \in QueryVectors : \A res \in search(vdb', q, all) :
                           id \in ResultIds(res)]_vars

\* a delete of one of two entries left the other without a vector: no
\* search returns it
C13_SurvivorNotSearchable ==
    /\ lastCall.op = "delete_documents"
    /\ ~lastCall.raised
    /\ Len(lastCall.args[1]) = 1
    /\ Len(vdb.documents) = 1
    /\ vdb.documents[1].id \notin Range(lastCall.args[1])
    /\ vdb.index = <<>>
    /\ \A q \in QueryVectors : search(vdb, q, 1) = {<<>>}

\* the mutating operations of the index
MutatingOps == {"add_documents", "update_document", "delete_documents",
                "clear_collection"}

\* C14: every mutating call that changes the index or the documents writes
\* both artifacts before it returns: after the call the two files hold the
\* index and the documents in memory.
C14_SavedOnEveryMutation ==
    [][(vdb.live /\ lastCall'.op \in MutatingOps /\ ~lastCall'.raised /\ vdb' # vdb) =>
          disk' = _save_index(vdb')]_vars

\* a delete removed an entry from memory that the documents file still holds
C14_DeleteNotPersisted ==
    /\ lastCall.op = "delete_documents"
    /\ ~lastCall.raised
    /\ disk.documents.state = "ok"
    /\ \E i \in 1..Len(disk.documents.data) :
           /\ disk.documents.data[i].id \in Range(lastCall.args[1])
           /\ get_document(vdb, disk.documents.data[i].id) = <<>>

\* a search that returned
SearchCall == lastCall.op = "search" /\ ~lastCall.raised

\* C18: search on an index that holds no vector returns the empty list and
\* does not fail; on a populated index it returns at most top_k results, in
\* descending order of their similarity to the query.
C18_SearchResults ==
    SearchCall =>
        LET documents == lastCall.result
            top_k == lastCall.args[2]
        IN  /\ vdb.index = <<>> => documents = <<>>
            /\ Len(documents) <= top_k
            /\ \A i \in 1..Len(documents) :
                   documents[i].score =
                       Score(QueryArray(lastCall.args[1]), vdb.index[documents[i].row])
            /\ \A i, j \in 1..Len(documents) :
                   i < j => ScoreLeq(documents[j].score, documents[i].score)

\* three vectors stored, top_k = 2: two results, the first scoring higher
C18_Witness ==
    /\ SearchCall
    /\ Len(vdb.index) = 3
    /\ lastCall.args[2] = 2
    /\ Len(lastCall.result) = 2
    /\ ~ScoreLeq(lastCall.result[1].score, lastCall.result[2].score)

\* a search of the initialized, never populated index returned the empty list
C18_WitnessEmpty ==
    /\ SearchCall
    /\ vdb = EmptyDB
    /\ lastCall.result = <<>>

\* an embedding brought to the configured dimension: its leading components,
\* zeros where it has none
Repaired(embedding) ==
    [i \in 1..dimension |-> IF i <= Len(embedding) THEN embedding[i] ELSE 0]

\* C19: add_documents takes an entry whatever the length of its vector: a
\* shorter vector is stored with zeros appended, a longer one cut to its
\* leading components, so every stored vector has the configured dimension;
\* search repairs the query vector in the same way.
C19_DimensionRepair ==
    [][/\ \A i \in 1..Len(vdb'.index) : Len(vdb'.index[i].vec.v) = dimension
       /\ (vdb.live /\ lastCall'.op = "add_documents") =>
             LET documents == lastCall'.args[1]
             IN  /\ ~lastCall'.raised
                 /\ Len(vdb'.index) = Len(vdb.index) + Len(documents)
                 /\ \A k \in 1..Len(documents) :
                        /\ vdb'.index[Len(vdb.index) + k].vec.v =
                               Repaired(documents[k].embedding)
                        /\ get_document(vdb', documents[k].id) # <<>>
       /\ (vdb.live /\ lastCall'.op = "search") =>
             \A i \in 1..Len(lastCall'.result) :
                lastCall'.result[i].score =
                    Score(normalize_L2(Repaired(lastCall'.args[1])),
                          vdb.index[lastCall'.result[i].row])]_vars

\* a vector that was too short and one that was too long are stored, and a
\* search with a short query vector found them
C19_Witness ==
    /\ SearchCall
    /\ Len(lastCall.args[1]) < dimension
    /\ lastCall.result # <<>>
    /\ \E i, j \in 1..Len(vdb.index) :
           /\ vdb.index[i].vec.v = Repaired(<<1>>)
           /\ vdb.index[j].vec.v = [k \in 1..dimension |-> 1]

----------------------------------------------------------------------------
(* Claims about the embedding service (specification SpecEmbed).           *)

BatchCall == emb.op = "generate_embeddings_batch"

\* the batch text i belongs to (1-based)
BatchOf(i) == ((i - 1) \div max_batch_size) + 1

\* text i was embedded by a batched call that succeeded, or by its own retries
Embedded(i) ==
    \/ ~emb.batchFails[BatchOf(i)]
    \/ emb.itemFailures[i] < StopAfterAttempt

\* C8: generate_embeddings_batch returns one vector per text, the i-th
\* vector being that of the i-th text (or its placeholder), whatever batches
\* and items fail; an empty list gives an empty list and no remote call.
C8_OneVectorPerTextInOrder ==
    BatchCall =>
        /\ Len(emb.embeddings) = Len(emb.texts)
        /\ \A i \in 1..Len(emb.texts) :
             emb.embeddings[i] = IF Embedded(i) THEN BackendVector(emb.texts[i])
                                 ELSE ZeroVector
        /\ (emb.texts = <<>> => emb.embeddings = <<>> /\ emb.log = <<>>)

\* three texts in two batches, the first batch failed with one text lost,
\* the second batch answered
C8_Witness ==
    /\ BatchCall
    /\ Len(emb.texts) = 3
    /\ emb.texts[1] # emb.texts[2]
    /\ Len(emb.embeddings) = 3
    /\ emb.batchFails[1]
    /\ ~emb.batchFails[BatchOf(3)]
    /\ ~Embedded(1)
    /\ Embedded(2)

\* the entries of the log about single calls for text i
SingleCalls(i) == SelectSeq(emb.log, LAMBDA e : e.op = "single" /\ e.at = i)

\* the entries of the log about the batched call starting at text i
BatchCalls(i) == SelectSeq(emb.log, LAMBDA e : e.op = "batch" /\ e.at = i)

\* C9: when a batched call fails, every text of that batch is embedded on its
\* own, a text whose retries are exhausted gets a zero vector of the index's
\* dimension, the call does not raise, and every batch is still attempted.
C9_PartialBatchDegradation ==
    BatchCall =>
        /\ ~emb.raised
        /\ \A i \in 1..Len(emb.texts) :
             /\ emb.batchFails[BatchOf(i)] => Len(SingleCalls(i)) = 1
             /\ ~emb.batchFails[BatchOf(i)] => Len(SingleCalls(i)) = 0
             /\ ~Embedded(i) =>
                    /\ i <= Len(emb.embeddings)
                    /\ emb.embeddings[i] = [k \in 1..dimension |-> 0]
             /\ (i - 1) % max_batch_size = 0 => Len(BatchCalls(i)) = 1

\* a first batch failed and lost its first text, and a later batch followed
C9_Witness ==
    /\ BatchCall
    /\ ~emb.raised
    /\ Len(emb.texts) > max_batch_size
    /\ emb.batchFails[1]
    /\ emb.itemFailures[1] = StopAfterAttempt
    /\ emb.embeddings[1] = ZeroVector
    /\ Len(emb.embeddings) = Len(emb.texts)

\* C10: generate_embedding makes at most 3 attempts, returns the vector of
\* the first attempt that succeeds without trying again, and raises when all
\* 3 attempts fail.
C10_ThreeAttempts ==
    emb.op = "generate_embedding" =>
        LET failures == emb.itemFailures[1]
            attempts == emb.log[1].attempts
        IN  /\ attempts <= 3
            /\ failures < 3 => /\ ~emb.raised
                               /\ attempts = failures + 1
                               /\ emb.embeddings = <<BackendVector(emb.texts[1])>>
            /\ failures >= 3 => /\ emb.raised
                                /\ attempts = 3
                                /\ emb.embeddings = <<>>

\* the backend would have answered the fourth attempt, the call raised
C10_Witness ==
    /\ emb.op = "generate_embedding"
    /\ emb.itemFailures[1] = 3
    /\ emb.raised

\* the second attempt succeeded
C10_WitnessRetry ==
    /\ emb.op = "generate_embedding"
    /\ emb.itemFailures[1] = 1
    /\ ~emb.raised
    /\ emb.log[1].attempts = 2

----------------------------------------------------------------------------
(* Claims about the text chunker (specification SpecChunk).                *)

ChunkCall == chk.op = "create_chunks"

\* the tokens of an emitted chunk: the sum over its sentences
ChunkTokens(chunk) ==
    SumSeq([i \in 1..Len(chunk.sentences) |-> count_tokens(chunk.sentences[i])])

\* C6: every chunk create_chunks emits outside the long-sentence split has
\* at most chunk_size tokens, chunks starting with an overlap suffix included.
C6_TokenBound ==
    ChunkCall =>
        \A i \in 1..Len(chk.chunks) :
            ~chk.chunks[i].long => ChunkTokens(chk.chunks[i]) <= chk.chunk_size

\* a chunk that starts with overlap sentences went over chunk_size
C6_OverlapChunkTooLong ==
    /\ ChunkCall
    /\ \E i \in 1..Len(chk.chunks) :
         /\ chk.chunks[i].overlap > 0
         /\ ~chk.chunks[i].long
         /\ ChunkTokens(chk.chunks[i]) > chk.chunk_size

\* the sentences of a chunk without its leading overlap sentences
NewSentences(chunk) == SubSeq(chunk.sentences, chunk.overlap + 1, Len(chunk.sentences))

RECURSIVE WordsOfChunks(_)
WordsOfChunks(chunks) ==
    IF chunks = <<>> THEN <<>>
    ELSE Words(Join(NewSentences(Head(chunks)))) \o WordsOfChunks(Tail(chunks))

\* C7: the words of the emitted chunks in order, the overlap sentences at
\* the start of a chunk left out, are the words of the normalized input; an
\* empty or blank input gives no chunk.
C7_ChunkCoverage ==
    ChunkCall =>
        /\ WordsOfChunks(chk.chunks) = Words(clean_text(chk.text))
        /\ \A i \in 1..Len(chk.chunks) : Words(chk.chunks[i].text) # <<>>
        /\ (\A i \in 1..Len(chk.text) : IsSpace(chk.text[i])) => chk.chunks = <<>>

\* a run that emitted a chunk with overlap and split a long sentence
C7_Witness ==
    /\ ChunkCall
    /\ \E i \in 1..Len(chk.chunks) : chk.chunks[i].overlap > 0
    /\ \E i \in 1..Len(chk.chunks) : chk.chunks[i].long
    /\ Len(chk.chunks) >= 3

----------------------------------------------------------------------------
(* Claims about the query embedding (specification SpecEmbed).             *)

QueryCall == emb.op = "generate_query_embedding"

\* the query holds nothing but whitespace
Blank(text) == \A i \in 1..Len(text) : IsSpace(text[i])

\* C20: generate_query_embedding rejects a query that is empty once trimmed
\* with a ValueError raised before any call of the backend; any other query
\* is handed to generate_embedding trimmed, and a failure of the backend
\* leaves the call as an error of another kind.
C20_QueryValidation ==
    QueryCall =>
        IF Blank(emb.query)
        THEN /\ emb.error = "ValueError"
             /\ emb.attempts = 0
             /\ emb.sent = <<>>
        ELSE /\ emb.sent = <<Strip(emb.query)>>
             /\ ~IsSpace(emb.sent[1][1])
             /\ ~IsSpace(emb.sent[1][Len(emb.sent[1])])
             /\ emb.attempts >= 1
             /\ emb.error \in {"none", "RetryError"}
             /\ emb.error = "none" <=> emb.failures < StopAfterAttempt
             /\ emb.error = "none" =>
                    emb.embedding = BackendVector(TextOf(Strip(emb.query)))

\* a query of one blank was rejected without a call of the backend
C20_Witness ==
    /\ QueryCall
    /\ emb.query = <<" ">>
    /\ emb.error = "ValueError"
    /\ emb.attempts = 0

\* a padded query was sent trimmed and the backend failed every attempt
C20_WitnessBackendFailure ==
    /\ QueryCall
    /\ emb.query = <<" ", "a">>
    /\ emb.sent = <<<<"a">>>>
    /\ emb.error = "RetryError"

----------------------------------------------------------------------------
(* Claims about the application process (specification SpecProcess).       *)

\* the entries of the documents file
Persisted(files) == files.documents.data

\* C15: the flush at shutdown never replaces the persisted index with an
\* older state: every entry the files held before close() is loaded by a
\* fresh initialize() afterwards.
C15_ShutdownKeepsEntries ==
    [][lastCall'.op = "shutdown" =>
          LET fresh == initialize(disk')
          IN  \A i \in 1..Len(Persisted(disk)) :
                 get_document(fresh, Persisted(disk)[i].id) = <<Persisted(disk)[i]>>]_vars

\* the application was shut down after a refresh had indexed an entry, and
\* the files hold no entry any more
C15_ShutdownLostEntries ==
    /\ lastCall.op = "shutdown"
    /\ ~lastCall.raised
    /\ lastCall.args[1] # <<>>
    /\ Loads(disk.documents)
    /\ Persisted(disk) = <<>>
    /\ initialize(disk).documents = <<>>

\* C16: indexing and retrieval work on the same index: an entry stored by a
\* completed index_chunks is in the index every later query searches.
C16_SameIndex ==
    [][(lastCall'.op = "query" /\ vdb.live) =>
          \A i \in 1..Len(vdb.documents) :
             get_document(ragdb', vdb.documents[i].id) = <<vdb.documents[i]>>]_vars

\* a query that followed a completed index_chunks searched an index without
\* the entry just stored and was answered that nothing is known
C16_StaleRetrievalIndex ==
    /\ lastCall.op = "query"
    /\ ~lastCall.raised
    /\ lastCall.result.searched
    /\ lastCall.result.answer = NoInfoAnswer
    /\ vdb.live
    /\ vdb.documents # <<>>
    /\ Len(vdb.index) >= 1
    /\ Persisted(disk) = vdb.documents
    /\ ragdb.live
    /\ ragdb.documents = <<>>

\* C17: a query that is not blank and whose search returns nothing is
\* answered with the fixed no-information answer and no sources, as a normal
\* result, the generation backend not being called; a query that is not
\* blank and whose embedding succeeds does reach the search.
C17_NoResultsAnswer ==
    lastCall.op = "query" =>
        /\ (~Blank(lastCall.args[1]) /\ lastCall.args[3] < StopAfterAttempt)
               => lastCall.result.searched
        /\ (lastCall.result.searched /\ lastCall.result.relevant_docs = <<>>) =>
              /\ ~Blank(lastCall.args[1])
              /\ ~lastCall.raised
              /\ lastCall.result.error = "none"
              /\ lastCall.result.answer = NoInfoAnswer
              /\ lastCall.result.sources = <<>>
              /\ ~lastCall.result.generated

\* a query on the empty index got the fixed answer although the generation
\* backend would have failed
C17_Witness ==
    /\ lastCall.op = "query"
    /\ lastCall.args[1] = <<"a">>
    /\ lastCall.args[4]
    /\ ragdb.live
    /\ ragdb.index = <<>>
    /\ lastCall.result.searched
    /\ lastCall.result.answer = NoInfoAnswer
    /\ lastCall.result.sources = <<>>
    /\ ~lastCall.raised

\* a query on an index with entries was answered by the generation backend
C17_WitnessGenerated ==
    /\ lastCall.op = "query"
    /\ lastCall.result.generated
    /\ lastCall.result.error = "none"
    /\ lastCall.result.sources # <<>>

----------------------------------------------------------------------------
(* Further claims about the indexing pipeline (specification Spec).        *)

\* this step is a call of index_chunks
IndexCall == lastCall.op = "none" /\ lastCall'.op = "index_chunks"

\* the entries of source_id among documents
EntriesOf(documents, source_id) ==
    SelectSeq(documents, LAMBDA d : d.metadata.source_id = source_id)

\* the entries of the other sources among documents
EntriesNotOf(documents, source_id) ==
    SelectSeq(documents, LAMBDA d : d.metadata.source_id # source_id)

\* C22: when reindex_source(source_id) returns ready_for_reindex the index
\* holds no entry whose metadata names source_id, in memory and on disk, and
\* the entries of the other sources are as they were.
C22_ReindexDeletesSource ==
    [][(lastCall'.op = "reindex_source"
          /\ lastCall'.result.status = "ready_for_reindex") =>
         LET source_id == lastCall'.args[1]
         IN  /\ EntriesOf(vdb'.documents, source_id) = <<>>
             /\ EntriesOf(disk'.documents.data, source_id) = <<>>
             /\ EntriesNotOf(vdb'.documents, source_id)
                    = EntriesNotOf(vdb.documents, source_id)]_vars

\* reindex_source returned ready_for_reindex and the entries of the source
\* are still in the index and in the documents file
C22_SourceStillIndexed ==
    /\ lastCall.op = "reindex_source"
    /\ lastCall.result.status = "ready_for_reindex"
    /\ EntriesOf(vdb.documents, lastCall.args[1]) # <<>>
    /\ Len(vdb.index) >= 1
    /\ EntriesOf(disk.documents.data, lastCall.args[1]) # <<>>

\* C25: one index_chunks call invokes add_documents at most once, with all
\* the chunks selected for embedding; entry i pairs the id and the text of
\* selected chunk i with vector i of generate_embeddings_batch and with the
\* chunk's metadata, the source id and the hash of the chunk's text.
C25_OneBatchedAdd ==
    [][IndexCall =>
         LET call == lastCall'
             selected == ChunksToIndex(Pre, call.chunks, call.source_id,
                                       call.force_reindex)
         IN  /\ Len(call.added) <= 1
             /\ call.added = <<>> <=> selected = <<>>
             /\ Len(call.embeddings) = Len(selected)
             /\ \A n \in 1..Len(call.added) :
                  LET documents == call.added[n]
                  IN  /\ Len(documents) = Len(selected)
                      /\ \A i \in 1..Len(documents) :
                           /\ documents[i].id
                                = _generate_chunk_id(call.source_id, selected[i])
                           /\ documents[i].text = selected[i].text
                           /\ documents[i].text = call.embedded[i]
                           /\ documents[i].embedding = call.embeddings[i]
                           /\ documents[i].metadata.chunk_index
                                = selected[i].chunk_index
                           /\ documents[i].metadata.source_id = call.source_id
                           /\ documents[i].metadata.content_hash
                                = _generate_content_hash(selected[i].text)]_vars

\* a forced call over two chunks of different texts handed both to
\* add_documents at once, each with the vector of its own text
C25_Witness ==
    /\ lastCall.op = "index_chunks"
    /\ Len(lastCall.chunks) = 2
    /\ Len(lastCall.added) = 1
    /\ Len(lastCall.added[1]) = 2
    /\ lastCall.added[1][1].text # lastCall.added[1][2].text
    /\ lastCall.added[1][1].embedding = BackendVector(lastCall.chunks[1].text)
    /\ lastCall.added[1][2].embedding = BackendVector(lastCall.chunks[2].text)

\* C28: when index_chunks returns, total_chunks = indexed + skipped + failed
\* and total_chunks is the number of chunks passed in.
C28_StatsAddUp ==
    (lastCall.op = "index_chunks" /\ ~lastCall.raised) =>
        /\ lastCall.stats.total_chunks = Len(lastCall.chunks)
        /\ lastCall.stats.total_chunks
             = lastCall.stats.indexed + lastCall.stats.skipped + lastCall.stats.failed

\* an unforced call over one chunk returned with the chunk in none of the
\* three counts
C28_ChunkUncounted ==
    /\ lastCall.op = "index_chunks"
    /\ ~lastCall.raised
    /\ ~lastCall.force_reindex
    /\ lastCall.stats.total_chunks = 1
    /\ lastCall.stats.indexed = 0
    /\ lastCall.stats.skipped = 0
    /\ lastCall.stats.failed = 0

\* C30: after index_chunks over the M chunks of a source the index holds no
\* entry of that source with a chunk index from M on: the entries of the
\* source are the chunks of its latest version.
C30_NoStaleChunks ==
    (lastCall.op = "index_chunks" /\ ~lastCall.raised) =>
        \A k \in ChunkIdx :
            k >= Len(lastCall.chunks)
                => get_document(vdb, <<lastCall.source_id, k>>) = <<>>

\* a source indexed with two chunks was indexed again with one, and the
\* entry of its second chunk is still stored, with its vector
C30_StaleChunkKept ==
    /\ lastCall.op = "index_chunks"
    /\ ~lastCall.raised
    /\ Len(lastCall.chunks) = 1
    /\ lastCall.stats.indexed = 1
    /\ get_document(vdb, <<lastCall.source_id, 1>>) # <<>>
    /\ <<lastCall.source_id, 1>> \in {vdb.index[i].owner : i \in 1..Len(vdb.index)}
    /\ get_document(initialize(disk), <<lastCall.source_id, 1>>) # <<>>

----------------------------------------------------------------------------
(* Further claims about the vector index (specification SpecIndex).        *)

\* C27: every result of search carries the id, the text and the metadata of
\* the entry whose stored vector produced its score: the row that scored
\* was added for the id the result names, and the result holds what is
\* stored under that id.
C27_ResultMatchesVector ==
    SearchCall =>
        \A i \in 1..Len(lastCall.result) :
            LET result == lastCall.result[i]
            IN  /\ result.id = vdb.index[result.row].owner
                /\ get_document(vdb, result.id)
                     = <<[id |-> result.id, text |-> result.text,
                          metadata |-> result.metadata]>>

\* an id was added a second time together with a new one, and search then
\* returned the new id with the score of a vector stored for the old id
C27_ScoreOfAnotherEntry ==
    /\ SearchCall
    /\ Len(vdb.index) > Len(vdb.documents)
    /\ \E i \in 1..Len(lastCall.result) :
          /\ lastCall.result[i].id = <<"p1", 1>>
          /\ vdb.index[lastCall.result[i].row].owner = <<"p1", 0>>
          /\ \E j \in 1..Len(vdb.index) :
                /\ vdb.index[j].owner = <<"p1", 1>>
                /\ Score(QueryArray(lastCall.args[1]), vdb.index[j])
                     # lastCall.result[i].score

----------------------------------------------------------------------------
(* Further claims about the embedding service (specification SpecEmbed).   *)

\* the entries of the log about the pause after the batch starting at text i
Sleeps(i) == SelectSeq(emb.log, LAMBDA e : e.op = "sleep" /\ e.at = i)

\* the first texts of the batches of the call (1-based)
BatchStarts == {i \in 1..Len(emb.texts) : (i - 1) % max_batch_size = 0}

\* C26: in one generate_embeddings_batch call a pause follows every batch
\* but the last, whether the batch was answered or fell back to single
\* calls, and no pause follows the last batch.
C26_PauseBetweenBatches ==
    BatchCall =>
        \A i \in BatchStarts :
            Len(Sleeps(i)) = IF i + max_batch_size <= Len(emb.texts) THEN 1 ELSE 0

\* a call of two batches whose first batch fell back to single calls went
\* on to the second batch without any pause
C26_NoPauseAfterFallback ==
    /\ BatchCall
    /\ Len(emb.texts) > max_batch_size
    /\ emb.batchFails[1]
    /\ Len(SingleCalls(1)) = 1
    /\ Len(BatchCalls(max_batch_size + 1)) = 1
    /\ Sleeps(1) = <<>>

\* a call of two answered batches paused once, after the first
C26_PauseAfterAnsweredBatch ==
    /\ BatchCall
    /\ Len(emb.texts) > max_batch_size
    /\ \A b \in 1..NumBatches(Len(emb.texts)) : ~emb.batchFails[b]
    /\ Len(Sleeps(1)) = 1
    /\ Len(SelectSeq(emb.log, LAMBDA e : e.op = "sleep")) = NumBatches(Len(emb.texts)) - 1

----------------------------------------------------------------------------
(* Further claims about the text chunker (specification SpecChunk).        *)

\* the last k sentences of a chunk
LastSentences(chunk, k) ==
    SubSeq(chunk.sentences, Len(chunk.sentences) - k + 1, Len(chunk.sentences))

\* the tokens of a sequence of sentences
SentencesTokens(sentences) ==
    SumSeq([i \in 1..Len(sentences) |-> count_tokens(sentences[i])])

\* the largest number of closing sentences of a chunk whose tokens together
\* stay within limit
LongestSuffix(chunk, limit) ==
    LET fits == {k \in 0..Len(chunk.sentences) :
                    SentencesTokens(LastSentences(chunk, k)) <= limit}
    IN  CHOOSE k \in fits : \A j \in fits : j <= k

\* chunk i + 1 was opened because a sentence would have overflowed chunk i
\* (every other chunk that follows a chunk comes from or after the split of
\* a long sentence)
OpenedByOverflow(i) ==
    /\ i + 1 <= Len(chk.chunks)
    /\ ~chk.chunks[i].long
    /\ ~chk.chunks[i + 1].long

\* C23: when a sentence would overflow the current chunk, the chunk is
\* emitted and the next one starts with the longest suffix of whole sentences
\* of the emitted chunk whose tokens together are at most chunk_overlap,
\* followed by the overflowing sentence; with chunk_overlap = 0 it starts
\* with the overflowing sentence alone.
C23_OverlapSeeding ==
    ChunkCall =>
        \A i \in 1..Len(chk.chunks) :
            OpenedByOverflow(i) =>
                LET emitted == chk.chunks[i]
                    next == chk.chunks[i + 1]
                    k == LongestSuffix(emitted, chk.chunk_overlap)
                IN  /\ next.overlap = k
                    /\ Len(next.sentences) > k
                    /\ SubSeq(next.sentences, 1, k) = LastSentences(emitted, k)
                    /\ ChunkTokens(emitted) + count_tokens(next.sentences[k + 1])
                         > chk.chunk_size
                    /\ chk.chunk_overlap = 0 => next.overlap = 0

\* a chunk of two sentences was emitted and both were carried over in front
\* of the sentence that overflowed it
C23_Witness ==
    /\ ChunkCall
    /\ \E i \in 1..Len(chk.chunks) :
         /\ OpenedByOverflow(i)
         /\ Len(chk.chunks[i].sentences) = 2
         /\ chk.chunks[i + 1].overlap = 2
         /\ Len(chk.chunks[i + 1].sentences) = 3

\* a chunk was emitted with chunk_overlap = 0 and the next one started with
\* the overflowing sentence
C23_WitnessNoOverlap ==
    /\ ChunkCall
    /\ chk.chunk_overlap = 0
    /\ \E i \in 1..Len(chk.chunks) :
         /\ OpenedByOverflow(i)
         /\ chk.chunks[i + 1].overlap = 0

\* C24: a sentence of more than chunk_size tokens is split at word
\* boundaries into sub-chunks of at most chunk_size tokens each, emitted in
\* order after the pending chunk, and the chunk that follows starts with no
\* overlap sentences.
C24_LongSentencePath ==
    ChunkCall =>
        \A i \in 1..Len(chk.chunks) :
            chk.chunks[i].long =>
                /\ count_tokens(chk.chunks[i].text) <= chk.chunk_size
                /\ Words(chk.chunks[i].text) # <<>>
                /\ chk.chunks[i].overlap = 0
                /\ i + 1 <= Len(chk.chunks) => chk.chunks[i + 1].overlap = 0

\* the split of a long sentence emitted a sub-chunk of one word with more
\* than chunk_size tokens
C24_WordOverChunkSize ==
    /\ ChunkCall
    /\ \E i \in 1..Len(chk.chunks) :
         /\ chk.chunks[i].long
         /\ Len(Words(chk.chunks[i].text)) = 1
         /\ count_tokens(chk.chunks[i].text) > chk.chunk_size

----------------------------------------------------------------------------
(* Claims about the refresh task (specification SpecRefresh).              *)

\* the last index_chunks call was made by a refresh task (args holds the
\* task's id and the force flag of its request)
TaskCall == lastCall.op = "index_chunks" /\ Len(lastCall.args) = 2

\* C21: a refresh requested with force = true runs index_chunks with
\* force_reindex = true on every page, so that every chunk is embedded and
\* stored again: skipped = 0 and indexed = the number of chunks, also for
\* chunks whose stored content hash is the hash of their text.
C21_ForcedRefresh ==
    (TaskCall /\ lastCall.args[2]) =>
        /\ lastCall.force_reindex
        /\ lastCall.stats.skipped = 0
        /\ lastCall.stats.indexed = Len(lastCall.chunks)
        /\ Len(lastCall.embedded) = Len(lastCall.chunks)

\* a refresh requested with force = true met a chunk stored with the hash of
\* its text, and index_chunks, called unforced, skipped it
C21_ForceIgnored ==
    /\ TaskCall
    /\ lastCall.args[2]
    /\ task.force
    /\ ~lastCall.force_reindex
    /\ Len(lastCall.chunks) = 1
    /\ lastCall.stats.skipped = 1
    /\ lastCall.stats.indexed = 0
    /\ lastCall.embedded = <<>>

\* the moves of a task's status
StatusMoves ==
    {<<"pending", "running">>, <<"running", "completed">>,
     <<"running", "failed">>, <<"running", "cancelled">>}

\* C29: the status of a task only moves pending -> running -> completed,
\* failed or cancelled; once it is cancelled it is never changed again and
\* the background task makes no further index_chunks call.
C29_TaskLifecycle ==
    [][task'.id = task.id =>
          /\ task'.status # task.status => <<task.status, task'.status>> \in StatusMoves
          /\ task.status = "cancelled" =>
                /\ task'.status = "cancelled"
                /\ task'.calls = task.calls]_vars

\* a task cancelled before its first page indexed its pages all the same
\* and ended completed
C29_CancelledTaskCompleted ==
    /\ task.cancelledAt = 0
    /\ task.calls = MaxPages
    /\ task.status = "completed"
    /\ task.pc = "done"

====
